---- MODULE Spec2Model ----
(***************************************************************************)
(* Room membership and permission model of the near-you server.            *)
(*                                                                         *)
(* The store is the MongoDB "rooms" collection; every Express handler is   *)
(* an async function, so a request is a process whose atomic steps are    *)
(* the store round trips it awaits.  Between two awaits of one request    *)
(* the steps of other requests may run.                                    *)
(*                                                                         *)
(* Mongoose's save() of a loaded document sends only the changes made to   *)
(* the local copy: a push on an array is sent as $push (and increments    *)
(* the version key __v), an assignment to a field of the i-th array       *)
(* element is sent as $set on "participants.i.<field>" guarded by the     *)
(* version key read with the document (VersionError when it has moved).   *)
(*                                                                         *)
(* The cache is the Redis key space "room:<code>"; setCache, getCache and  *)
(* deleteCache are awaited by the handlers, so each is a step of its own.  *)
(*                                                                         *)
(* The login path (User model, /api/auth routes, authenticateToken) works  *)
(* on one account and one JWT, with the clock in hours; the client is the  *)
(* reducer of AuthContext.js.                                              *)
(***************************************************************************)
EXTENDS Integers, Sequences, FiniteSets, TLC

\* ------------------------------------------------------------------ bounds
NumCodes  == 2   \* size of the room-code space (36^8 in the source)
MaxClock  == 2   \* wall-clock ticks
MaxCap    == 2
MaxLoginClock == 4                    \* hours the login scenarios run for
MaxLogoutClock == 200                 \* hours the logout scenarios run for   \* largest maxParticipants a CreateRoom request asks for

Users     == {"alice", "bob", "carol"}
Reqs      == {"r1", "r2"}             \* requests in flight at the same time
Codes     == 1..NumCodes
Caps      == 1..MaxCap
NoPw      == ""                       \* password absent (undefined)
JoinPws   == {NoPw, "abcd", "wrong"}  \* passwords a Join request may carry
CreatePws == {NoPw, "abcd"}           \* passwords a CreateRoom request may carry
Null      == 0                        \* a null Date

\* limits of createRoomValidation, roomSchema and validateRoomName
MinNameLength     == 3
MaxNameLength     == 100
MinPasswordLength == 4
MinParticipants   == 1
MaxParticipants   == 1000
MaxLiveKitName    == 64
\* limits of the User model's login throttle and of the auth routes, in hours
MaxLoginAttempts  == 5
LockHours         == 2
BlacklistHours    == 24
SessionHours      == 24
JwtHours          == 168

\* roomSchema.type enum
RoomTypes == {"public", "private", "password-protected"}
\* roomSchema.participants.role enum
Roles == {"owner", "admin", "moderator", "participant"}
\* the flags of roomSchema.participants.permissions
PermNames == {"canMute", "canUnmute", "canShareScreen", "canChat", "canRecord", "canKick"}
\* permission names a caller may ask about: the stored flags and one that is not stored
AskedPerms == PermNames \cup {"canFly"}

\* roomSchema.participants.permissions defaults
DefaultPermissions ==
    [p \in PermNames |-> p \in {"canMute", "canUnmute", "canShareScreen", "canChat"}]

\* the keys of roomSchema.settings
SettingKeys == {"videoEnabled", "audioEnabled", "screenSharingEnabled", "chatEnabled",
                "recordingEnabled", "videoQuality", "allowParticipantsToUnmute",
                "allowParticipantsToShareScreen", "allowParticipantsToChat",
                "requireApprovalToJoin", "muteOnEntry", "videoOffOnEntry"}

\* roomSchema.settings defaults
DefaultSettings ==
    [k \in SettingKeys |->
        CASE k = "videoQuality" -> "medium"
          [] k \in {"recordingEnabled", "requireApprovalToJoin", "muteOnEntry",
                    "videoOffOnEntry"} -> FALSE
          [] OTHER -> TRUE]

\* a settings object of a request body: a function from some keys to values;
\* NoSettings is the body without a settings field
NoSettings == [absent |-> TRUE]
EmptySettings == [k \in {} |-> TRUE]

VARIABLES
    store,   \* the rooms collection: sequence of documents, _id = index
    req,     \* the requests in flight: req[r] is the handler's local state
    now,     \* wall clock (Date.now())
    cache,   \* the Redis keys "room:<code>": cache[code] is the value, NoEntry if none
    redisUp, \* whether the Redis client's commands succeed
    account, \* the user document of the one account: loginAttempts, lockUntil
    authKeys,\* the Redis keys "blacklist:<token>" and "session:<id>": expiry, Null if none
    client   \* the browser: localStorage token at load and the auth reducer's state

vars == <<store, req, now, cache, redisUp, account, authKeys, client>>

\* no value under a cache key
NoEntry == [kind |-> "none"]
\* a response without a payload
NoBody == [kind |-> "none"]

\* no document (findOne returned null / no local document)
NoRoom == [id |-> 0]
NoDelta == [kind |-> "none"]
\* what a handler keeps of the document it loaded: its _id and its version key
Ref(room) == [id |-> room.id, v |-> room.v]
NoRef == [id |-> 0, v |-> 0]
IdleReq == [op |-> "idle", pc |-> "idle", user |-> "", room |-> NoRef,
            delta |-> NoDelta, result |-> "", body |-> NoBody]

\* ------------------------------------------------------------ Room model
\* a new participant sub-document: pushed fields plus the schema defaults
NewParticipant(userId, role) ==
    [user |-> userId, role |-> role, isActive |-> TRUE, leftAt |-> Null,
     permissions |-> DefaultPermissions]

RECURSIVE CountActive(_)
CountActive(ps) ==
    IF ps = <<>> THEN 0
    ELSE (IF Head(ps).isActive THEN 1 ELSE 0) + CountActive(Tail(ps))

\* the count over all the records, the inactive ones too
currentParticipantsCountAll(room) == Len(room.participants)

\* virtual currentParticipantsCount
currentParticipantsCount(room) == CountActive(room.participants)

\* participants.find(p => p.user === userId): index of the first match, 0 if none
FindByUser(room, userId) ==
    LET hits == {i \in 1..Len(room.participants) : room.participants[i].user = userId}
    IN IF hits = {} THEN 0 ELSE CHOOSE i \in hits : \A j \in hits : i <= j

\* participants.find(p => p.user === userId && p.isActive)
FindActive(room, userId) ==
    LET hits == {i \in 1..Len(room.participants) :
                    room.participants[i].user = userId /\ room.participants[i].isActive}
    IN IF hits = {} THEN 0 ELSE CHOOSE i \in hits : \A j \in hits : i <= j

\* methods.isParticipant
isParticipant(room, userId) ==
    \E i \in 1..Len(room.participants) :
        room.participants[i].user = userId /\ room.participants[i].isActive

\* hasPermission without the owner's bypass
hasPermissionNoBypass(room, userId, permission) ==
    LET i == FindActive(room, userId) IN
    IF i = 0 THEN FALSE
    ELSE IF permission \in PermNames
         THEN room.participants[i].permissions[permission]
         ELSE FALSE

\* hasPermission looking the record up without the isActive test
hasPermissionAnyRecord(room, userId, permission) ==
    LET i == FindByUser(room, userId) IN
    IF i = 0 THEN FALSE
    ELSE IF room.participants[i].role = "owner" THEN TRUE
    ELSE IF permission \in PermNames
         THEN room.participants[i].permissions[permission]
         ELSE FALSE

\* methods.hasPermission
hasPermission(room, userId, permission) ==
    LET i == FindActive(room, userId) IN
    IF i = 0 THEN FALSE
    ELSE IF room.participants[i].role = "owner" THEN TRUE
    ELSE IF permission \in PermNames
         THEN room.participants[i].permissions[permission]
         ELSE FALSE

\* the role of the caller's active participant record, "none" without one
EffectiveRole(room, userId) ==
    LET i == FindActive(room, userId) IN
    IF i = 0 THEN "none" ELSE room.participants[i].role

\* addParticipant assigning the role argument to a reactivated record too
addParticipantResetRole(room, userId, role) ==
    LET i == FindByUser(room, userId) IN
    IF i # 0
    THEN [room  |-> [room EXCEPT !.participants[i].isActive = TRUE,
                                 !.participants[i].leftAt = Null,
                                 !.participants[i].role = role],
          delta |-> [kind |-> "set", idx |-> i,
                     fields |-> [isActive |-> TRUE, leftAt |-> Null, role |-> role]]]
    ELSE [room  |-> [room EXCEPT !.participants =
                                    Append(@, NewParticipant(userId, role))],
          delta |-> [kind |-> "push", rec |-> NewParticipant(userId, role)]]

\* methods.addParticipant up to its save(): the local document and the delta
addParticipant(room, userId, role) ==
    LET i == FindByUser(room, userId) IN
    IF i # 0
    THEN [room  |-> [room EXCEPT !.participants[i].isActive = TRUE,
                                 !.participants[i].leftAt = Null],
          delta |-> [kind |-> "set", idx |-> i,
                     fields |-> [isActive |-> TRUE, leftAt |-> Null]]]
    ELSE [room  |-> [room EXCEPT !.participants =
                                    Append(@, NewParticipant(userId, role))],
          delta |-> [kind |-> "push", rec |-> NewParticipant(userId, role)]]

\* removeParticipant turning the record that leaves into a plain participant
removeParticipantDemote(room, userId, date) ==
    LET i == FindByUser(room, userId) IN
    IF i # 0
    THEN [room  |-> [room EXCEPT !.participants[i].isActive = FALSE,
                                 !.participants[i].leftAt = date,
                                 !.participants[i].role = "participant"],
          delta |-> [kind |-> "set", idx |-> i,
                     fields |-> [isActive |-> FALSE, leftAt |-> date,
                                 role |-> "participant"]]]
    ELSE [room |-> room, delta |-> NoDelta]

\* methods.removeParticipant up to its save()
removeParticipant(room, userId, date) ==
    LET i == FindByUser(room, userId) IN
    IF i # 0
    THEN [room  |-> [room EXCEPT !.participants[i].isActive = FALSE,
                                 !.participants[i].leftAt = date],
          delta |-> [kind |-> "set", idx |-> i,
                     fields |-> [isActive |-> FALSE, leftAt |-> date]]]
    ELSE [room |-> room, delta |-> NoDelta]

\* ------------------------------------------------------------------ store
\* the documents in the collection (a deleted document keeps its slot, marked)
Stored == {i \in 1..Len(store) : ~store[i].deleted}

\* Room.findOne({ roomId }): the stored document with that code, NoRoom if none
findOne(roomId) ==
    IF \E i \in Stored : store[i].roomId = roomId
    THEN store[CHOOSE i \in Stored : store[i].roomId = roomId]
    ELSE NoRoom

\* Room.findOne({ name }): is there a stored document with that name
NameExists(name) == \E i \in Stored : store[i].name = name

\* the unique index on roomId: may a document with this code be inserted
UniqueIndexAllows(roomId) ==
    \A i \in Stored : store[i].roomId # roomId

\* the error save() reports for the update of the local document, "" if none:
\* an update guarded by the version key matches no document when the version
\* has moved or the document is gone; an unguarded one when the document is gone
SaveError(room, delta) ==
    IF delta.kind = "set"
    THEN IF store[room.id].deleted \/ store[room.id].v # room.v
         THEN "VERSION_ERROR" ELSE ""
    ELSE IF store[room.id].deleted THEN "DOCUMENT_NOT_FOUND" ELSE ""

\* does the store accept the update save() sends for the local document
SaveAccepted(room, delta) == SaveError(room, delta) = ""

\* the stored document after the update save() sends
SaveApply(doc, delta) ==
    CASE delta.kind = "push" ->
            [doc EXCEPT !.participants = Append(@, delta.rec), !.v = @ + 1]
      [] delta.kind = "set" ->
            [doc EXCEPT !.participants[delta.idx] =
                [f \in DOMAIN @ |-> IF f \in DOMAIN delta.fields
                                    THEN delta.fields[f] ELSE @[f]]]
      [] delta.kind = "update" ->
            [f \in DOMAIN doc |-> IF f \in DOMAIN delta.fields
                                  THEN delta.fields[f] ELSE doc[f]]
      [] OTHER -> doc

\* ------------------------------------------------------------------ cache
\* setCache(key, value): the key space after the command; a failing command is
\* caught and logged, the key space is as before
setCache(key, value) ==
    IF redisUp THEN [cache EXCEPT ![key] = value] ELSE cache

\* getCache(key): the value, NoEntry when there is none or the command fails
getCache(key) ==
    IF redisUp THEN cache[key] ELSE NoEntry

\* deleteCache(key)
deleteCache(key) ==
    IF redisUp THEN [cache EXCEPT ![key] = NoEntry] ELSE cache

\* logger.error(...) in the catch blocks of the cache helpers: logs and returns
loggerError == "logged"

\* the try/catch of the cache helpers with the rejection passed on to the caller
cacheHelperRethrow == IF redisUp THEN "done" ELSE "thrown"

\* the try/catch of setCache, getCache and deleteCache as the awaiting handler
\* sees it: the helper returns, also when the command failed and was logged
cacheHelper ==
    IF redisUp THEN "done"
    ELSE IF loggerError = "logged" THEN "done" ELSE "thrown"

\* the response of a handler whose last await was a cache helper
AfterCache(result) == IF cacheHelper = "done" THEN result ELSE "SERVER_ERROR"

\* userSchema defaults of the fields the login path uses
NewAccount == [loginAttempts |-> 0, lockUntil |-> Null]
\* no blacklist key and no session key
NoKeys == [blacklist |-> Null, session |-> Null]
\* no user object (null)
NoUser == ""
\* the client's initialState, the module having loaded with that token in
\* localStorage (Null if none)
initialState(stored) ==
    [user |-> NoUser, token |-> stored, isAuthenticated |-> FALSE, loading |-> TRUE]
\* nobody has logged in and no page is loaded with a token
NoLogins ==
    /\ account = NewAccount
    /\ authKeys = NoKeys
    /\ client = [stored |-> Null, state |-> initialState(Null)]

\* ------------------------------------------------------------------- Init
Init ==
    /\ store = <<>>
    /\ req = [r \in Reqs |-> IdleReq]
    /\ now = 1
    /\ cache = [c \in Codes |-> NoEntry]
    /\ redisUp = TRUE
    /\ NoLogins

Free(r) == req[r].pc \in {"idle", "done"}

\* the handler of request r awaits a store or cache round trip at pc
AwaitAt(r, pc, op, userId, ref, delta) ==
    req' = [req EXCEPT ![r] = [op |-> op, pc |-> pc, user |-> userId,
                               room |-> ref, delta |-> delta, result |-> "",
                               body |-> NoBody]]

\* the handler of request r awaits a save(): its local state until the store answers
Await(r, op, userId, room, delta) ==
    AwaitAt(r, "save", op, userId, Ref(room), delta)

\* the handler of request r sends its response with a payload
RespondWith(r, op, userId, ref, delta, result, body) ==
    req' = [req EXCEPT ![r] = [op |-> op, pc |-> "done", user |-> userId,
                               room |-> [id |-> ref.id, v |-> 0],
                               delta |-> [kind |-> delta.kind], result |-> result,
                               body |-> body]]

\* the handler of request r sends its response
Respond(r, op, userId, ref, delta, result) ==
    RespondWith(r, op, userId, ref, delta, result, NoBody)

\* ------------------------------------------------------------- POST /
\* a room name of a request body, by what the checks look at: its length after
\* trim and whether it is made of letters, digits, hyphens and underscores only
RoomName(id, len, slug) == [id |-> id, len |-> len, slug |-> slug]

\* String.length of the passwords requests carry
PwLength(password) ==
    CASE password = "abc" -> 3
      [] password = "abcd" -> 4
      [] password = "wrong" -> 5
      [] OTHER -> 0

\* createRoomValidation and handleValidationErrors: does the body pass
createRoomValidation(name, type, password, maxParticipants) ==
    /\ name.len >= MinNameLength /\ name.len <= MaxNameLength
    /\ type \in RoomTypes
    /\ password # NoPw => PwLength(password) >= MinPasswordLength
    /\ maxParticipants >= MinParticipants /\ maxParticipants <= MaxParticipants

\* livekitService.validateRoomName
validateRoomName(name) ==
    name.len > 0 /\ name.slug /\ name.len <= MaxLiveKitName

\* the settings new Room({...}) is given: the body's settings under the five
\* flags the handler computes, over the schema defaults
CreateSettings(settings) ==
    [k \in SettingKeys |->
        CASE k \in {"videoEnabled", "audioEnabled", "screenSharingEnabled",
                    "chatEnabled"} ->
                ~(k \in DOMAIN settings /\ settings[k] = FALSE)
          [] k = "recordingEnabled" ->
                (k \in DOMAIN settings /\ settings[k] = TRUE)
          [] OTHER -> IF k \in DOMAIN settings THEN settings[k]
                      ELSE DefaultSettings[k]]

\* the document new Room({...}) builds, with the code the pre-save hook draws
RoomDoc(id, userId, name, type, password, maxParticipants, settings, code) ==
    [id |-> id, roomId |-> code, name |-> name, owner |-> userId, type |-> type,
     password |-> IF type = "password-protected" THEN password ELSE NoPw,
     maxParticipants |-> maxParticipants, isActive |-> TRUE,
     settings |-> CreateSettings(settings),
     isRecording |-> FALSE,
     participants |-> <<>>, v |-> 0, deleted |-> FALSE]

\* the value the create handler caches under "room:<code>"
CreateSnapshot(room) ==
    [kind |-> "created", type |-> room.type, owner |-> room.owner,
     maxParticipants |-> room.maxParticipants, settings |-> room.settings]

\* validation, validateRoomName and the lookup of the name; the handler then
\* builds the document and awaits room.save()
CreateRoomFind(r, userId, name, type, password, maxParticipants, settings) ==
    /\ Free(r)
    /\ IF ~createRoomValidation(name, type, password, maxParticipants)
       THEN Respond(r, "create", userId, NoRef, NoDelta, "VALIDATION_ERROR")
       ELSE IF ~validateRoomName(name)
       THEN Respond(r, "create", userId, NoRef, NoDelta, "INVALID_ROOM_NAME")
       ELSE IF NameExists(name)
       THEN Respond(r, "create", userId, NoRef, NoDelta, "ROOM_NAME_EXISTS")
       ELSE AwaitAt(r, "insert", "create", userId, NoRef,
                    [kind |-> "insert",
                     doc |-> RoomDoc(0, userId, name, type, password,
                                     maxParticipants, settings, 0)])
    /\ UNCHANGED <<store, now, cache, redisUp, account, authKeys, client>>

\* await room.save(): the pre-save hook draws the code, the insert is checked
\* against the unique index; then addParticipant(owner) is called and its
\* save() is awaited.
CreateRoomInsert(r, code) ==
    /\ req[r].op = "create" /\ req[r].pc = "insert"
    /\ LET doc == [req[r].delta.doc EXCEPT !.id = Len(store) + 1, !.roomId = code]
           add == addParticipant(doc, req[r].user, "owner")
       IN IF UniqueIndexAllows(code)
          THEN /\ store' = Append(store, doc)
               /\ Await(r, "create", req[r].user, add.room,
                        [kind |-> add.delta.kind, rec |-> add.delta.rec,
                         key |-> code, snapshot |-> CreateSnapshot(doc)])
          ELSE /\ Respond(r, "create", req[r].user, NoRef, NoDelta, "DUPLICATE_KEY")
               /\ UNCHANGED store
    /\ UNCHANGED <<now, cache, redisUp, account, authKeys, client>>

\* the store answers addParticipant's save(); the handler awaits setCache of the
\* snapshot of its document
CreateRoomSave(r) ==
    /\ req[r].op = "create" /\ req[r].pc = "save"
    /\ IF SaveAccepted(req[r].room, req[r].delta)
       THEN /\ store' = [store EXCEPT ![req[r].room.id] = SaveApply(@, req[r].delta)]
            /\ AwaitAt(r, "cache", "create", req[r].user, req[r].room,
                       [kind |-> req[r].delta.kind, key |-> req[r].delta.key,
                        snapshot |-> req[r].delta.snapshot])
       ELSE /\ UNCHANGED store
            /\ Respond(r, "create", req[r].user, req[r].room, req[r].delta,
                       SaveError(req[r].room, req[r].delta))
    /\ UNCHANGED <<now, cache, redisUp, account, authKeys, client>>

\* setCache answers; the handler responds 201
CreateRoomCache(r) ==
    /\ req[r].op = "create" /\ req[r].pc = "cache"
    /\ cache' = setCache(req[r].delta.key, req[r].delta.snapshot)
    /\ Respond(r, "create", req[r].user, req[r].room, req[r].delta, AfterCache("OK"))
    /\ UNCHANGED <<store, now, redisUp, account, authKeys, client>>

\* ------------------------------------------------- POST /:roomId/join
\* room.comparePassword(password): the stored password against the supplied one
comparePassword(room, candidate) == candidate = room.password

\* the gating checks with the capacity check ahead of the active check
JoinGateFullFirst(room, password) ==
    IF currentParticipantsCount(room) >= room.maxParticipants THEN "ROOM_FULL"
    ELSE IF ~room.isActive THEN "ROOM_INACTIVE"
    ELSE IF room.type = "password-protected"
         THEN IF password = NoPw THEN "PASSWORD_REQUIRED"
              ELSE IF ~comparePassword(room, password) THEN "INVALID_PASSWORD"
              ELSE "OK"
    ELSE "OK"

\* the gating checks without the comparison of the supplied password
JoinGateNoCompare(room, password) ==
    IF ~room.isActive THEN "ROOM_INACTIVE"
    ELSE IF currentParticipantsCount(room) >= room.maxParticipants THEN "ROOM_FULL"
    ELSE IF room.type = "password-protected"
         THEN IF password = NoPw THEN "PASSWORD_REQUIRED" ELSE "OK"
    ELSE "OK"

\* the gating checks of the join handler, in the handler's order
JoinGate(room, password) ==
    IF ~room.isActive THEN "ROOM_INACTIVE"
    ELSE IF currentParticipantsCount(room) >= room.maxParticipants THEN "ROOM_FULL"
    ELSE IF room.type = "password-protected"
         THEN IF password = NoPw THEN "PASSWORD_REQUIRED"
              ELSE IF ~comparePassword(room, password) THEN "INVALID_PASSWORD"
              ELSE "OK"
    ELSE "OK"

\* generateRoomToken granting room-create to every caller
generateRoomTokenCreate(isAdmin, isModerator, metadataRole) ==
    [kind |-> "token", roomJoin |-> TRUE, roomAdmin |-> isAdmin,
     roomCreate |-> TRUE, canPublish |-> TRUE, canSubscribe |-> TRUE,
     role |-> IF metadataRole # "" THEN metadataRole
              ELSE IF isAdmin THEN "admin"
              ELSE IF isModerator THEN "moderator" ELSE "participant"]

\* the grants and the metadata role of the token generateRoomToken signs;
\* metadataRole is the role the caller's metadata carries, "" if it carries none
generateRoomToken(isAdmin, isModerator, metadataRole) ==
    [kind |-> "token", roomJoin |-> TRUE, roomAdmin |-> isAdmin,
     roomCreate |-> isAdmin, canPublish |-> TRUE, canSubscribe |-> TRUE,
     role |-> IF metadataRole # "" THEN metadataRole
              ELSE IF isAdmin THEN "admin"
              ELSE IF isModerator THEN "moderator" ELSE "participant"]

\* the token the join handler generates from its document
JoinToken(room, userId) ==
    generateRoomToken(room.owner = userId,
                      \E i \in 1..Len(room.participants) :
                          /\ room.participants[i].user = userId
                          /\ room.participants[i].role \in {"owner", "admin", "moderator"},
                      "")

\* findOne, the gating checks, isParticipant and addParticipant up to its save()
JoinFind(r, userId, roomId, password) ==
    /\ Free(r)
    /\ LET room == findOne(roomId)
           add  == addParticipant(room, userId, "participant")
       IN IF room = NoRoom
          THEN Respond(r, "join", userId, NoRef, NoDelta, "NOT_FOUND")
          ELSE IF JoinGate(room, password) # "OK"
          THEN Respond(r, "join", userId, room, NoDelta, JoinGate(room, password))
          ELSE IF isParticipant(room, userId)
          THEN AwaitAt(r, "cache", "join", userId, Ref(room),
                       [kind |-> "none", key |-> roomId,
                        token |-> JoinToken(room, userId)])
          ELSE Await(r, "join", userId, add.room,
                     [d \in DOMAIN add.delta \cup {"key", "token"} |->
                         IF d = "key" THEN roomId
                         ELSE IF d = "token" THEN JoinToken(add.room, userId)
                         ELSE add.delta[d]])
    /\ UNCHANGED <<store, now, cache, redisUp, account, authKeys, client>>

\* the store answers the save() of addParticipant; the handler generates the
\* token and awaits deleteCache
JoinSave(r) ==
    /\ req[r].op = "join" /\ req[r].pc = "save"
    /\ IF SaveAccepted(req[r].room, req[r].delta)
       THEN /\ store' = [store EXCEPT ![req[r].room.id] = SaveApply(@, req[r].delta)]
            /\ AwaitAt(r, "cache", "join", req[r].user, req[r].room,
                       [kind |-> req[r].delta.kind, key |-> req[r].delta.key,
                        token |-> req[r].delta.token])
       ELSE /\ UNCHANGED store
            /\ Respond(r, "join", req[r].user, req[r].room, req[r].delta,
                       SaveError(req[r].room, req[r].delta))
    /\ UNCHANGED <<now, cache, redisUp, account, authKeys, client>>

\* deleteCache answers; the handler responds with the token
JoinCache(r) ==
    /\ req[r].op = "join" /\ req[r].pc = "cache"
    /\ cache' = deleteCache(req[r].delta.key)
    /\ RespondWith(r, "join", req[r].user, req[r].room, req[r].delta,
                   AfterCache("OK"),
                   IF AfterCache("OK") = "OK" THEN req[r].delta.token ELSE NoBody)
    /\ UNCHANGED <<store, now, redisUp, account, authKeys, client>>

\* ------------------------------------------------ POST /:roomId/leave
\* findOne and removeParticipant up to its save()
LeaveFind(r, userId, roomId) ==
    /\ Free(r)
    /\ LET room == findOne(roomId)
           rm   == removeParticipant(room, userId, now)
       IN IF room = NoRoom
          THEN Respond(r, "leave", userId, NoRef, NoDelta, "NOT_FOUND")
          ELSE IF rm.delta = NoDelta
          THEN AwaitAt(r, "cache", "leave", userId, Ref(room),
                       [kind |-> "none", key |-> roomId])
          ELSE Await(r, "leave", userId, rm.room,
                     [d \in DOMAIN rm.delta \cup {"key"} |->
                         IF d = "key" THEN roomId ELSE rm.delta[d]])
    /\ UNCHANGED <<store, now, cache, redisUp, account, authKeys, client>>

\* the store answers the save() of removeParticipant; the handler awaits deleteCache
LeaveSave(r) ==
    /\ req[r].op = "leave" /\ req[r].pc = "save"
    /\ IF SaveAccepted(req[r].room, req[r].delta)
       THEN /\ store' = [store EXCEPT ![req[r].room.id] = SaveApply(@, req[r].delta)]
            /\ AwaitAt(r, "cache", "leave", req[r].user, req[r].room,
                       [kind |-> req[r].delta.kind, key |-> req[r].delta.key])
       ELSE /\ UNCHANGED store
            /\ Respond(r, "leave", req[r].user, req[r].room, req[r].delta,
                       SaveError(req[r].room, req[r].delta))
    /\ UNCHANGED <<now, cache, redisUp, account, authKeys, client>>

\* deleteCache answers; the handler responds
LeaveCache(r) ==
    /\ req[r].op = "leave" /\ req[r].pc = "cache"
    /\ cache' = deleteCache(req[r].delta.key)
    /\ Respond(r, "leave", req[r].user, req[r].room, req[r].delta, AfterCache("OK"))
    /\ UNCHANGED <<store, now, redisUp, account, authKeys, client>>

\* ------------------------------------------------------ requireRoomAccess
\* Room.findOne({ roomId, owner: userId }): the first query of requireRoomAccess
OwnsRoom(roomId, userId) ==
    findOne(roomId) # NoRoom /\ findOne(roomId).owner = userId

\* Room.findOne({ roomId, 'participants.user': userId, 'participants.isActive':
\* true }): each condition is met by some element of the array, not
\* necessarily the same one
ParticipantQuery(roomId, userId) ==
    /\ findOne(roomId) # NoRoom
    /\ \E i \in 1..Len(findOne(roomId).participants) :
          findOne(roomId).participants[i].user = userId
    /\ \E i \in 1..Len(findOne(roomId).participants) :
          findOne(roomId).participants[i].isActive

\* requireRoomAccess up to the answer of its first query; op is the route
\* ("update" for PUT, "delete" for DELETE) and body its request body
RoomAccessOwner(r, op, userId, roomId, body) ==
    /\ Free(r)
    /\ AwaitAt(r, IF OwnsRoom(roomId, userId) THEN "find" ELSE "access", op,
               userId, NoRef, [kind |-> "request", key |-> roomId, body |-> body])
    /\ UNCHANGED <<store, now, cache, redisUp, account, authKeys, client>>

\* the answer of the second query: next() or 403
RoomAccessParticipant(r) ==
    /\ req[r].op \in {"update", "delete"} /\ req[r].pc = "access"
    /\ IF ParticipantQuery(req[r].delta.key, req[r].user)
       THEN AwaitAt(r, "find", req[r].op, req[r].user, NoRef, req[r].delta)
       ELSE Respond(r, req[r].op, req[r].user, NoRef, NoDelta, "ACCESS_DENIED")
    /\ UNCHANGED <<store, now, cache, redisUp, account, authKeys, client>>

\* ------------------------------------------------------- PUT /:roomId
\* a PUT body: name (NoName if absent), settings (NoSettings if absent) and
\* maxParticipants (0 if absent, which the handler's test takes for absent too)
NoName == RoomName(0, 0, FALSE)
UpdateBody(name, settings, maxParticipants) ==
    [name |-> name, settings |-> settings, maxParticipants |-> maxParticipants]

\* room.settings = settings: the patch in place of the stored settings
MergeSettingsOverwrite(settings, patch) ==
    [k \in SettingKeys |-> IF k \in DOMAIN patch THEN patch[k] ELSE DefaultSettings[k]]

\* room.settings = { ...room.settings, ...settings } under the strict schema
MergeSettings(settings, patch) ==
    [k \in SettingKeys |-> IF k \in DOMAIN patch THEN patch[k] ELSE settings[k]]

\* the caller's record the PUT handler looks for: owner or admin, active or not
UpdateParticipant(room, userId) ==
    \E i \in 1..Len(room.participants) :
        /\ room.participants[i].user = userId
        /\ room.participants[i].role \in {"owner", "admin"}

\* the fields the handler assigns to its document
UpdateFields(room, body) ==
    LET set == (IF body.name # NoName THEN {"name"} ELSE {})
               \cup (IF body.maxParticipants # 0 THEN {"maxParticipants"} ELSE {})
               \cup (IF body.settings # NoSettings THEN {"settings"} ELSE {})
    IN [f \in set |->
           CASE f = "name" -> body.name
             [] f = "maxParticipants" -> body.maxParticipants
             [] OTHER -> MergeSettings(room.settings, body.settings)]

\* the schema validators save() runs on the assigned fields
UpdateValid(fields) ==
    /\ "name" \in DOMAIN fields =>
          fields.name.len >= MinNameLength /\ fields.name.len <= MaxNameLength
    /\ "maxParticipants" \in DOMAIN fields =>
          /\ fields.maxParticipants >= MinParticipants
          /\ fields.maxParticipants <= MaxParticipants

\* findOne, the owner-or-admin check, the assignments, up to room.save()
UpdateFind(r) ==
    /\ req[r].op = "update" /\ req[r].pc = "find"
    /\ LET room   == findOne(req[r].delta.key)
           fields == UpdateFields(room, req[r].delta.body)
       IN IF room = NoRoom
          THEN Respond(r, "update", req[r].user, NoRef, NoDelta, "NOT_FOUND")
          ELSE IF ~UpdateParticipant(room, req[r].user)
          THEN Respond(r, "update", req[r].user, room, NoDelta,
                       "INSUFFICIENT_PERMISSIONS")
          ELSE IF ~UpdateValid(fields)
          THEN Respond(r, "update", req[r].user, room, NoDelta, "VALIDATION_ERROR")
          ELSE Await(r, "update", req[r].user, room,
                     [kind |-> "update", key |-> req[r].delta.key,
                      fields |-> fields, body |-> req[r].delta.body])
    /\ UNCHANGED <<store, now, cache, redisUp, account, authKeys, client>>

\* the store answers room.save(); the handler awaits deleteCache
UpdateSave(r) ==
    /\ req[r].op = "update" /\ req[r].pc = "save"
    /\ IF SaveAccepted(req[r].room, req[r].delta)
       THEN /\ store' = [store EXCEPT ![req[r].room.id] = SaveApply(@, req[r].delta)]
            /\ AwaitAt(r, "cache", "update", req[r].user, req[r].room,
                       [kind |-> "update", key |-> req[r].delta.key,
                        body |-> req[r].delta.body])
       ELSE /\ UNCHANGED store
            /\ Respond(r, "update", req[r].user, req[r].room, req[r].delta,
                       SaveError(req[r].room, req[r].delta))
    /\ UNCHANGED <<now, cache, redisUp, account, authKeys, client>>

\* deleteCache answers; the handler responds
UpdateCache(r) ==
    /\ req[r].op = "update" /\ req[r].pc = "cache"
    /\ cache' = deleteCache(req[r].delta.key)
    /\ Respond(r, "update", req[r].user, req[r].room, req[r].delta, AfterCache("OK"))
    /\ UNCHANGED <<store, now, redisUp, account, authKeys, client>>

\* ---------------------------------------------------- DELETE /:roomId
\* findOne, the owner check and livekitService.deleteRoom, which reports a
\* failure by its return value only; then Room.findByIdAndDelete is awaited
DeleteFind(r) ==
    /\ req[r].op = "delete" /\ req[r].pc = "find"
    /\ LET room == findOne(req[r].delta.key)
       IN IF room = NoRoom
          THEN Respond(r, "delete", req[r].user, NoRef, NoDelta, "NOT_FOUND")
          ELSE IF room.owner # req[r].user
          THEN Respond(r, "delete", req[r].user, room, NoDelta,
                       "INSUFFICIENT_PERMISSIONS")
          ELSE AwaitAt(r, "delete", "delete", req[r].user, Ref(room),
                       [kind |-> "delete", key |-> req[r].delta.key])
    /\ UNCHANGED <<store, now, cache, redisUp, account, authKeys, client>>

\* Room.findByIdAndDelete answers; the handler awaits deleteCache
DeleteStore(r) ==
    /\ req[r].op = "delete" /\ req[r].pc = "delete"
    /\ store' = [store EXCEPT ![req[r].room.id].deleted = TRUE]
    /\ AwaitAt(r, "cache", "delete", req[r].user, req[r].room, req[r].delta)
    /\ UNCHANGED <<now, cache, redisUp, account, authKeys, client>>

\* deleteCache answers; the handler responds
DeleteCache(r) ==
    /\ req[r].op = "delete" /\ req[r].pc = "cache"
    /\ cache' = deleteCache(req[r].delta.key)
    /\ Respond(r, "delete", req[r].user, req[r].room, req[r].delta, AfterCache("OK"))
    /\ UNCHANGED <<store, now, redisUp, account, authKeys, client>>

\* ------------------------------------------------------- GET /:roomId
RECURSIVE ActiveRecords(_)
\* participants.filter(p => p.isActive).map(p => ({ user, role, permissions }))
ActiveRecords(ps) ==
    IF ps = <<>> THEN <<>>
    ELSE IF Head(ps).isActive
         THEN <<[user |-> Head(ps).user, role |-> Head(ps).role,
                 permissions |-> Head(ps).permissions]>> \o ActiveRecords(Tail(ps))
         ELSE ActiveRecords(Tail(ps))

\* the roomData the GET handler builds from the document it found
RoomData(room) ==
    [kind |-> "details", type |-> room.type, owner |-> room.owner,
     maxParticipants |-> room.maxParticipants,
     currentParticipantsCount |-> currentParticipantsCount(room),
     settings |-> room.settings, participants |-> ActiveRecords(room.participants)]

\* getCache answers: a value is sent as the room's details, else findOne is awaited
GetCache(r, userId, roomId) ==
    /\ Free(r)
    /\ IF getCache(roomId) # NoEntry
       THEN RespondWith(r, "get", userId, NoRef, [kind |-> "hit"], AfterCache("OK"),
                        getCache(roomId))
       ELSE IF cacheHelper = "done"
       THEN AwaitAt(r, "find", "get", userId, NoRef, [kind |-> "get", key |-> roomId])
       ELSE Respond(r, "get", userId, NoRef, NoDelta, "SERVER_ERROR")
    /\ UNCHANGED <<store, now, cache, redisUp, account, authKeys, client>>

\* findOne answers: 404, or the handler builds roomData and awaits setCache
GetFind(r) ==
    /\ req[r].op = "get" /\ req[r].pc = "find"
    /\ LET room == findOne(req[r].delta.key)
       IN IF room = NoRoom
          THEN Respond(r, "get", req[r].user, NoRef, NoDelta, "NOT_FOUND")
          ELSE AwaitAt(r, "cache", "get", req[r].user, Ref(room),
                       [kind |-> "get", key |-> req[r].delta.key,
                        data |-> RoomData(room)])
    /\ UNCHANGED <<store, now, cache, redisUp, account, authKeys, client>>

\* setCache answers; the handler responds with roomData
GetSetCache(r) ==
    /\ req[r].op = "get" /\ req[r].pc = "cache"
    /\ cache' = setCache(req[r].delta.key, req[r].delta.data)
    /\ RespondWith(r, "get", req[r].user, req[r].room, req[r].delta, AfterCache("OK"),
                   IF AfterCache("OK") = "OK" THEN req[r].delta.data ELSE NoBody)
    /\ UNCHANGED <<store, now, redisUp, account, authKeys, client>>

\* ------------------------------------------------------------ the Redis server
\* the time to live given with setEx runs out
Expire(key) ==
    /\ cache[key] # NoEntry
    /\ cache' = [cache EXCEPT ![key] = NoEntry]
    /\ UNCHANGED <<store, req, now, redisUp, account, authKeys, client>>

\* the connection to Redis is lost: commands are rejected from now on
RedisDown ==
    /\ redisUp
    /\ redisUp' = FALSE
    /\ UNCHANGED <<store, req, now, cache, account, authKeys, client>>

\* the client has reconnected
RedisBack ==
    /\ ~redisUp
    /\ redisUp' = TRUE
    /\ UNCHANGED <<store, req, now, cache, account, authKeys, client>>

\* ------------------------------------------------------- POST /api/tokens
\* the grants and the metadata role of the token generateRecordingToken signs
generateRecordingToken ==
    [kind |-> "token", roomJoin |-> TRUE, roomAdmin |-> TRUE, roomCreate |-> FALSE,
     canPublish |-> FALSE, canSubscribe |-> TRUE, role |-> "recorder"]

\* the grants and the metadata role of the token generateAdminToken signs
generateAdminToken ==
    [kind |-> "token", roomJoin |-> TRUE, roomAdmin |-> TRUE, roomCreate |-> TRUE,
     canPublish |-> TRUE, canSubscribe |-> TRUE, role |-> "admin"]

\* POST /api/tokens/room
RoomToken(r, userId, roomId) ==
    /\ Free(r)
    /\ LET room == findOne(roomId)
           role == EffectiveRole(room, userId)
       IN IF room = NoRoom
          THEN Respond(r, "roomToken", userId, NoRef, NoDelta, "NOT_FOUND")
          ELSE IF ~room.isActive
          THEN Respond(r, "roomToken", userId, room, NoDelta, "ROOM_INACTIVE")
          ELSE IF ~isParticipant(room, userId)
          THEN Respond(r, "roomToken", userId, room, NoDelta, "NOT_PARTICIPANT")
          ELSE RespondWith(r, "roomToken", userId, room, NoDelta, "OK",
                           generateRoomToken(room.owner = userId,
                                             role \in {"owner", "admin", "moderator"},
                                             role))
    /\ UNCHANGED <<store, now, cache, redisUp, account, authKeys, client>>

\* POST /api/tokens/recording
RecordingToken(r, userId, roomId) ==
    /\ Free(r)
    /\ LET room == findOne(roomId)
       IN IF room = NoRoom
          THEN Respond(r, "recordingToken", userId, NoRef, NoDelta, "NOT_FOUND")
          ELSE IF ~\E i \in 1..Len(room.participants) :
                      /\ room.participants[i].user = userId
                      /\ room.participants[i].role \in {"owner", "admin"}
                      /\ room.participants[i].isActive
          THEN Respond(r, "recordingToken", userId, room, NoDelta,
                       "INSUFFICIENT_PERMISSIONS")
          ELSE IF ~room.settings["recordingEnabled"]
          THEN Respond(r, "recordingToken", userId, room, NoDelta, "RECORDING_DISABLED")
          ELSE RespondWith(r, "recordingToken", userId, room, NoDelta, "OK",
                           generateRecordingToken)
    /\ UNCHANGED <<store, now, cache, redisUp, account, authKeys, client>>

\* POST /api/tokens/admin
AdminToken(r, userId, roomId) ==
    /\ Free(r)
    /\ LET room == findOne(roomId)
       IN IF room = NoRoom
          THEN Respond(r, "adminToken", userId, NoRef, NoDelta, "NOT_FOUND")
          ELSE IF room.owner # userId
          THEN Respond(r, "adminToken", userId, room, NoDelta,
                       "INSUFFICIENT_PERMISSIONS")
          ELSE RespondWith(r, "adminToken", userId, room, NoDelta, "OK",
                           generateAdminToken)
    /\ UNCHANGED <<store, now, cache, redisUp, account, authKeys, client>>

\* ------------------------------------------------------ /api/recordings
\* the caller's record the recording routes look for: owner or admin, active
RecordingParticipant(room, userId) ==
    \E i \in 1..Len(room.participants) :
        /\ room.participants[i].user = userId
        /\ room.participants[i].role \in {"owner", "admin"}
        /\ room.participants[i].isActive

\* POST /start: findOne and the checks; the handler sets isRecording on its
\* document and awaits room.save()
StartRecordingFind(r, userId, roomId) ==
    /\ Free(r)
    /\ LET room == findOne(roomId)
       IN IF room = NoRoom
          THEN Respond(r, "start", userId, NoRef, NoDelta, "NOT_FOUND")
          ELSE IF ~RecordingParticipant(room, userId)
          THEN Respond(r, "start", userId, room, NoDelta, "INSUFFICIENT_PERMISSIONS")
          ELSE IF ~room.settings["recordingEnabled"]
          THEN Respond(r, "start", userId, room, NoDelta, "RECORDING_DISABLED")
          ELSE IF room.isRecording
          THEN Respond(r, "start", userId, room, NoDelta, "ALREADY_RECORDING")
          ELSE Await(r, "start", userId, room,
                     [kind |-> "update", fields |-> [isRecording |-> TRUE]])
    /\ UNCHANGED <<store, now, cache, redisUp, account, authKeys, client>>

\* the store answers the save() of POST /start; an error is caught and answered
\* with RECORDING_START_FAILED
StartRecordingSave(r) ==
    /\ req[r].op = "start" /\ req[r].pc = "save"
    /\ IF SaveAccepted(req[r].room, req[r].delta)
       THEN /\ store' = [store EXCEPT ![req[r].room.id] = SaveApply(@, req[r].delta)]
            /\ Respond(r, "start", req[r].user, req[r].room, req[r].delta, "OK")
       ELSE /\ UNCHANGED store
            /\ Respond(r, "start", req[r].user, req[r].room, req[r].delta,
                       "RECORDING_START_FAILED")
    /\ UNCHANGED <<now, cache, redisUp, account, authKeys, client>>

\* POST /stop: findOne and the checks; the handler clears isRecording on its
\* document and awaits room.save()
StopRecordingFind(r, userId, roomId) ==
    /\ Free(r)
    /\ LET room == findOne(roomId)
       IN IF room = NoRoom
          THEN Respond(r, "stop", userId, NoRef, NoDelta, "NOT_FOUND")
          ELSE IF ~RecordingParticipant(room, userId)
          THEN Respond(r, "stop", userId, room, NoDelta, "INSUFFICIENT_PERMISSIONS")
          ELSE IF ~room.isRecording
          THEN Respond(r, "stop", userId, room, NoDelta, "NOT_RECORDING")
          ELSE Await(r, "stop", userId, room,
                     [kind |-> "update", fields |-> [isRecording |-> FALSE]])
    /\ UNCHANGED <<store, now, cache, redisUp, account, authKeys, client>>

\* the store answers the save() of POST /stop; an error is caught and answered
\* with RECORDING_STOP_FAILED
StopRecordingSave(r) ==
    /\ req[r].op = "stop" /\ req[r].pc = "save"
    /\ IF SaveAccepted(req[r].room, req[r].delta)
       THEN /\ store' = [store EXCEPT ![req[r].room.id] = SaveApply(@, req[r].delta)]
            /\ Respond(r, "stop", req[r].user, req[r].room, req[r].delta, "OK")
       ELSE /\ UNCHANGED store
            /\ Respond(r, "stop", req[r].user, req[r].room, req[r].delta,
                       "RECORDING_STOP_FAILED")
    /\ UNCHANGED <<now, cache, redisUp, account, authKeys, client>>

\* ------------------------------------------------- POST /api/auth/login
\* virtual isLocked of a user document, read at the given time
isLocked(user, date) == user.lockUntil # Null /\ user.lockUntil > date

\* incLoginAttempts: the update operators it sends for its local document
incLoginAttempts(user, date) ==
    IF user.lockUntil # Null /\ user.lockUntil < date
    THEN [kind |-> "restart"]
    ELSE [kind |-> "inc",
          lock |-> IF user.loginAttempts + 1 >= MaxLoginAttempts /\ ~isLocked(user, date)
                   THEN date + LockHours ELSE Null]

\* resetLoginAttempts: the update operators it sends
resetLoginAttempts == [kind |-> "reset"]

\* the stored user document after updateOne with those operators
updateOne(doc, update) ==
    CASE update.kind = "restart" -> [loginAttempts |-> 1, lockUntil |-> Null]
      [] update.kind = "inc" ->
            [loginAttempts |-> doc.loginAttempts + 1,
             lockUntil |-> IF update.lock # Null THEN update.lock ELSE doc.lockUntil]
      [] update.kind = "reset" -> NewAccount
      [] OTHER -> doc

\* generateAuthToken: the JWT, by its time of issue
generateAuthToken(date) == [kind |-> "jwt", iat |-> date]

\* findByCredentials: findOne({ email }) answers; a locked account is rejected,
\* else comparePassword is awaited.  correct: whether the password matches.
LoginFind(r, correct) ==
    /\ Free(r)
    /\ IF isLocked(account, now)
       THEN Respond(r, "login", "alice", NoRef, NoDelta, "ACCOUNT_LOCKED")
       ELSE AwaitAt(r, "compare", "login", "alice", NoRef,
                    [kind |-> "login", user |-> account, correct |-> correct])
    /\ UNCHANGED <<store, now, cache, redisUp, account, authKeys, client>>

\* bcrypt.compare answers; incLoginAttempts or resetLoginAttempts builds its
\* update from the local document and awaits updateOne
LoginCompare(r) ==
    /\ req[r].op = "login" /\ req[r].pc = "compare"
    /\ AwaitAt(r, "update", "login", "alice", NoRef,
               [kind |-> "login", correct |-> req[r].delta.correct,
                update |-> IF req[r].delta.correct THEN resetLoginAttempts
                           ELSE incLoginAttempts(req[r].delta.user, now)])
    /\ UNCHANGED <<store, now, cache, redisUp, account, authKeys, client>>

\* the store answers updateOne: a failed attempt is answered with the
\* credentials error; after a successful one the route signs the token and
\* awaits setCache of the session
LoginUpdate(r) ==
    /\ req[r].op = "login" /\ req[r].pc = "update"
    /\ account' = updateOne(account, req[r].delta.update)
    /\ IF req[r].delta.correct
       THEN AwaitAt(r, "cache", "login", "alice", NoRef,
                    [kind |-> "login", token |-> generateAuthToken(now)])
       ELSE Respond(r, "login", "alice", NoRef, [kind |-> "failed"],
                   "INVALID_CREDENTIALS")
    /\ UNCHANGED <<store, now, cache, redisUp, authKeys, client>>

\* setCache of the session answers; the route responds with the token
LoginCache(r) ==
    /\ req[r].op = "login" /\ req[r].pc = "cache"
    /\ authKeys' = IF redisUp THEN [authKeys EXCEPT !.session = now + SessionHours]
                   ELSE authKeys
    /\ RespondWith(r, "login", "alice", NoRef, NoDelta, AfterCache("OK"),
                   req[r].delta.token)
    /\ UNCHANGED <<store, now, cache, redisUp, account, client>>

\* that many hours pass, up to the given hour
Elapse(hours, max) ==
    /\ now + hours <= max
    /\ now' = now + hours
    /\ UNCHANGED <<store, req, cache, redisUp, account, authKeys, client>>

\* ------------------------------------- authenticateToken, POST /logout
\* is there a value under the key that expires at that hour
KeyLive(expiry) == expiry # Null /\ expiry > now

\* jwt.verify: is the token past its exp
Expired(token) == now >= token.iat + JwtHours

\* authenticateToken for a request that carries the token: getCache of the
\* blacklist key (null when the command fails), jwt.verify, findById; then the
\* route's handler runs
Authenticate(r, op, token) ==
    /\ Free(r)
    /\ IF redisUp /\ KeyLive(authKeys.blacklist)
       THEN Respond(r, op, "alice", NoRef, NoDelta, "TOKEN_REVOKED")
       ELSE IF Expired(token)
       THEN Respond(r, op, "alice", NoRef, NoDelta, "TOKEN_EXPIRED")
       ELSE AwaitAt(r, "handler", op, "alice", NoRef, [kind |-> "auth", token |-> token])
    /\ UNCHANGED <<store, now, cache, redisUp, account, authKeys, client>>

\* GET /me: the handler of an authenticated request responds
MeRespond(r) ==
    /\ req[r].op = "me" /\ req[r].pc = "handler"
    /\ Respond(r, "me", "alice", NoRef, NoDelta, "OK")
    /\ UNCHANGED <<store, now, cache, redisUp, account, authKeys, client>>

\* POST /logout: setCache of the blacklist key answers; deleteCache of the
\* session key is awaited
LogoutBlacklist(r) ==
    /\ req[r].op = "logout" /\ req[r].pc = "handler"
    /\ authKeys' = IF redisUp THEN [authKeys EXCEPT !.blacklist = now + BlacklistHours]
                   ELSE authKeys
    /\ AwaitAt(r, "session", "logout", "alice", NoRef, req[r].delta)
    /\ UNCHANGED <<store, now, cache, redisUp, account, client>>

\* deleteCache of the session key answers; the handler responds
LogoutSession(r) ==
    /\ req[r].op = "logout" /\ req[r].pc = "session"
    /\ authKeys' = IF redisUp THEN [authKeys EXCEPT !.session = Null] ELSE authKeys
    /\ Respond(r, "logout", "alice", NoRef, NoDelta, AfterCache("OK"))
    /\ UNCHANGED <<store, now, cache, redisUp, account, client>>

\* --------------------------------------------- client: AuthContext.js
\* tokens the client may hold, by their time of issue
ClientTokens == {1, 2}

\* the actions dispatched to the reducer
AuthActions ==
    [type : {"SET_LOADING"}, payload : BOOLEAN]
    \cup [type : {"SET_USER"}, payload : Users \cup {NoUser}]
    \cup [type : {"SET_TOKEN"}, payload : ClientTokens \cup {Null}]
    \cup [type : {"LOGIN_SUCCESS"}, payload : [user : Users, token : ClientTokens]]
    \cup [type : {"UPDATE_USER"}, payload : Users]
    \cup [type : {"LOGOUT", "CLEAR_AUTH"}]

\* authReducer; stored is the token initialState read from localStorage when
\* the module was loaded
authReducer(state, action, stored) ==
    CASE action.type = "SET_LOADING" -> [state EXCEPT !.loading = action.payload]
      [] action.type = "SET_USER" ->
            [state EXCEPT !.user = action.payload,
                          !.isAuthenticated = (action.payload # NoUser),
                          !.loading = FALSE]
      [] action.type = "SET_TOKEN" -> [state EXCEPT !.token = action.payload]
      [] action.type = "LOGIN_SUCCESS" ->
            [state EXCEPT !.user = action.payload.user,
                          !.token = action.payload.token,
                          !.isAuthenticated = TRUE, !.loading = FALSE]
      [] action.type = "LOGOUT" ->
            [state EXCEPT !.user = NoUser, !.token = Null,
                          !.isAuthenticated = FALSE, !.loading = FALSE]
      [] action.type = "UPDATE_USER" -> [state EXCEPT !.user = action.payload]
      [] action.type = "CLEAR_AUTH" ->
            [initialState(stored) EXCEPT !.loading = FALSE]
      [] OTHER -> state

\* dispatch(action)
Dispatch(action) ==
    /\ client' = [client EXCEPT !.state = authReducer(@, action, client.stored)]
    /\ UNCHANGED <<store, req, now, cache, redisUp, account, authKeys>>

\* time passes
Tick ==
    /\ now < MaxClock
    /\ now' = now + 1
    /\ UNCHANGED <<store, req, cache, redisUp, account, authKeys, client>>

\* the request bodies of POST / over the given values of their fields
Bodies(names, types, passwords, caps, settings) ==
    [name : names, type : types, password : passwords, maxParticipants : caps,
     settings : settings]

\* names that pass every check of the create handler
Names == {RoomName(1, MinNameLength, TRUE), RoomName(2, MaxLiveKitName, TRUE)}

\* a step of a CreateRoom request; the arguments are the inputs requests draw from
CreateStep(reqs, creators, bodies, codes) ==
    \/ \E r \in reqs, u \in creators, b \in bodies :
          CreateRoomFind(r, u, b.name, b.type, b.password, b.maxParticipants,
                         b.settings)
    \/ \E r \in reqs, c \in codes : CreateRoomInsert(r, c)
    \/ \E r \in reqs : CreateRoomSave(r)
    \/ \E r \in reqs : CreateRoomCache(r)

\* the second query of requireRoomAccess, whatever the route
AccessStep(reqs) == \E r \in reqs : RoomAccessParticipant(r)

\* a step of a PUT request
UpdateStep(reqs, users, codes, bodies) ==
    \/ \E r \in reqs, u \in users, c \in codes, b \in bodies :
          RoomAccessOwner(r, "update", u, c, b)
    \/ \E r \in reqs : UpdateFind(r)
    \/ \E r \in reqs : UpdateSave(r)
    \/ \E r \in reqs : UpdateCache(r)

\* a step of a DELETE request
DeleteStep(reqs, users, codes) ==
    \/ \E r \in reqs, u \in users, c \in codes :
          RoomAccessOwner(r, "delete", u, c, UpdateBody(NoName, NoSettings, 0))
    \/ \E r \in reqs : DeleteFind(r)
    \/ \E r \in reqs : DeleteStore(r)
    \/ \E r \in reqs : DeleteCache(r)

\* a step of a GET request
GetStep(reqs, users, codes) ==
    \/ \E r \in reqs, u \in users, c \in codes : GetCache(r, u, c)
    \/ \E r \in reqs : GetFind(r)
    \/ \E r \in reqs : GetSetCache(r)

\* a request for a token
TokenStep(reqs, users, codes) ==
    \/ \E r \in reqs, u \in users, c \in codes : RoomToken(r, u, c)
    \/ \E r \in reqs, u \in users, c \in codes : RecordingToken(r, u, c)
    \/ \E r \in reqs, u \in users, c \in codes : AdminToken(r, u, c)

\* a step of a request of the recording routes
RecordingStep(reqs, users, codes) ==
    \/ \E r \in reqs, u \in users, c \in codes : StartRecordingFind(r, u, c)
    \/ \E r \in reqs : StartRecordingSave(r)
    \/ \E r \in reqs, u \in users, c \in codes : StopRecordingFind(r, u, c)
    \/ \E r \in reqs : StopRecordingSave(r)

\* a step of an authenticated request that carries the token
AuthStep(reqs, token) ==
    \/ \E r \in reqs, op \in {"me", "logout"} : Authenticate(r, op, token)
    \/ \E r \in reqs : MeRespond(r)
    \/ \E r \in reqs : LogoutBlacklist(r)
    \/ \E r \in reqs : LogoutSession(r)

\* a step of a login request
LoginStep(reqs) ==
    \/ \E r \in reqs, correct \in BOOLEAN : LoginFind(r, correct)
    \/ \E r \in reqs : LoginCompare(r)
    \/ \E r \in reqs : LoginUpdate(r)
    \/ \E r \in reqs : LoginCache(r)

\* a step of a Join or a Leave request
MemberStep(reqs, codes, users, joinPws) ==
    \/ \E r \in reqs, u \in users, c \in codes, pw \in joinPws : JoinFind(r, u, c, pw)
    \/ \E r \in reqs : JoinSave(r)
    \/ \E r \in reqs : JoinCache(r)
    \/ \E r \in reqs, u \in users, c \in codes : LeaveFind(r, u, c)
    \/ \E r \in reqs : LeaveSave(r)
    \/ \E r \in reqs : LeaveCache(r)

\* Concurrent requests of three users on one public room created by alice.
Next ==
    \/ CreateStep(Reqs, {"alice"},
                  Bodies({RoomName(1, MinNameLength, TRUE)}, {"public"}, {NoPw},
                         Caps, {EmptySettings}),
                  {1})
    \/ MemberStep(Reqs, {1}, Users, {NoPw})

Spec == Init /\ [][Next]_vars

\* Concurrent requests of the creator and one other user on the room while
\* and after it is created.
NextOwner ==
    \/ CreateStep(Reqs, {"alice"},
                  Bodies({RoomName(1, MinNameLength, TRUE)}, {"public"}, {NoPw},
                         Caps, {EmptySettings}),
                  {1})
    \/ MemberStep(Reqs, {1}, {"alice", "bob"}, {NoPw})

SpecOwner == Init /\ [][NextOwner]_vars

\* One request at a time while time passes.
NextClock ==
    \/ CreateStep({"r1"}, {"alice"},
                  Bodies({RoomName(1, MinNameLength, TRUE)}, {"public"}, {NoPw},
                         Caps, {EmptySettings}),
                  {1})
    \/ MemberStep({"r1"}, {1}, {"alice", "bob"}, {NoPw})
    \/ Tick

SpecClock == Init /\ [][NextClock]_vars

\* Room creation over the whole code space, one request at a time.
NextCodes ==
    \/ CreateStep({"r1"}, {"alice", "bob"},
                  Bodies(Names, RoomTypes, CreatePws, Caps, {EmptySettings}),
                  Codes)
    \/ MemberStep({"r1"}, Codes, {"alice"}, {NoPw})

SpecCodes == Init /\ [][NextCodes]_vars

\* names at and beyond the limits of the checks: too short, shortest, longest
\* LiveKit takes, longest the validation takes, too long, and one with a space
BodyNames ==
    {RoomName(1, MinNameLength - 1, TRUE), RoomName(2, MinNameLength, TRUE),
     RoomName(3, MaxLiveKitName, TRUE), RoomName(4, MaxNameLength, TRUE),
     RoomName(5, MaxNameLength + 1, TRUE), RoomName(6, MinNameLength, FALSE)}
\* maxParticipants at and beyond the limits
BodyCaps == {MinParticipants - 1, MaxParticipants, MaxParticipants + 1} \cup Caps
\* passwords of a create body: none, too short, long enough
BodyPws == {NoPw, "abc", "abcd"}
\* the bodies of the CreateRoom requests: every type and one that is none
CreateBodies ==
    Bodies(BodyNames, RoomTypes \cup {"hidden"}, BodyPws, BodyCaps, {EmptySettings})

\* CreateRoom requests of alice's over all these bodies, one at a time.
NextCreate == CreateStep({"r1"}, {"alice"}, CreateBodies, Codes)

SpecCreate == Init /\ [][NextCreate]_vars

\* ---------------------------------------------- a room already created
\* the stored room once a CreateRoom request of alice's has completed
CreatedRoom(maxParticipants) ==
    LET doc == RoomDoc(1, "alice", RoomName(1, MinNameLength, TRUE), "public", NoPw,
                       maxParticipants, EmptySettings, 1)
    IN SaveApply(doc, addParticipant(doc, "alice", "owner").delta)

\* the key space once that request has completed
CreatedCache(room) ==
    [c \in Codes |-> IF c = room.roomId THEN CreateSnapshot(room) ELSE NoEntry]

InitMembers ==
    /\ \E m \in Caps : /\ store = <<CreatedRoom(m)>>
                       /\ cache = CreatedCache(CreatedRoom(m))
    /\ req = [r \in Reqs |-> IdleReq]
    /\ now = 1
    /\ redisUp = TRUE
    /\ NoLogins

\* Concurrent Join and Leave requests of three users on a created room.
NextMembers == MemberStep(Reqs, {1}, Users, {NoPw})

SpecMembers == InitMembers /\ [][NextMembers]_vars

\* ------------------------------------------------- a room already stored
\* permission flags a stored participant record may carry
FlagSets ==
    {DefaultPermissions,
     [p \in PermNames |-> FALSE],
     [p \in PermNames |-> p \in {"canRecord", "canKick"}]}

\* a participant sub-document as the schema allows it
StoredParticipant(userId, role, active, flags) ==
    [user |-> userId, role |-> role, isActive |-> active,
     leftAt |-> IF active THEN Null ELSE 1, permissions |-> flags]

\* rosters of a room of alice's: her owner record, then possibly bob's record
StoredRosters ==
    LET owners == {StoredParticipant("alice", "owner", a, f) :
                      a \in BOOLEAN, f \in FlagSets}
        others == {StoredParticipant("bob", ro, a, f) :
                      ro \in Roles \ {"owner"}, a \in BOOLEAN, f \in FlagSets}
    IN {<<o>> : o \in owners} \cup {<<o, b>> : o \in owners, b \in others}

\* room documents the schema allows: any type, active or not
StoredDocs ==
    {[id |-> 1, roomId |-> 1, name |-> RoomName(1, MinNameLength, TRUE),
      owner |-> "alice", type |-> t,
      password |-> IF t = "password-protected" THEN "abcd" ELSE NoPw,
      maxParticipants |-> m, isActive |-> a, settings |-> DefaultSettings,
      isRecording |-> FALSE, participants |-> ps, v |-> Len(ps), deleted |-> FALSE] :
        t \in RoomTypes, m \in Caps, a \in BOOLEAN, ps \in StoredRosters}

InitStored ==
    /\ store \in {<<d>> : d \in StoredDocs}
    /\ req = [r \in Reqs |-> IdleReq]
    /\ now = 1
    /\ cache = [c \in Codes |-> NoEntry]
    /\ redisUp = TRUE
    /\ NoLogins

\* Join and Leave requests, one at a time, on a room found in the store.
NextStored == MemberStep({"r1"}, {1}, Users, JoinPws)

SpecStored == InitStored /\ [][NextStored]_vars

\* ------------------------------------------- settings of a stored room
\* stored settings that differ from the defaults
OtherSettings ==
    [DefaultSettings EXCEPT !["chatEnabled"] = FALSE, !["muteOnEntry"] = TRUE,
                            !["videoQuality"] = "low"]

\* the settings patches of the PUT bodies: none, empty, one key, and several
\* keys with one that is no key of the schema
Patches ==
    {NoSettings, EmptySettings, [chatEnabled |-> TRUE],
     [recordingEnabled |-> TRUE, videoQuality |-> "high", theme |-> "dark"]}

\* the PUT bodies
UpdateBodies ==
    {UpdateBody(NoName, p, m) : p \in Patches, m \in {0, MaxCap, MaxParticipants + 1}}

\* active public rooms of alice's with either settings, the participants'
\* permission flags at their defaults
SettingsDocs ==
    {[d EXCEPT !.settings = st] :
        d \in {e \in StoredDocs :
                 /\ e.type = "public" /\ e.isActive
                 /\ \A i \in 1..Len(e.participants) :
                       e.participants[i].permissions = DefaultPermissions},
        st \in {DefaultSettings, OtherSettings}}

InitUpdate ==
    /\ store \in {<<d>> : d \in SettingsDocs}
    /\ req = [r \in Reqs |-> IdleReq]
    /\ now = 1
    /\ cache = [c \in Codes |-> NoEntry]
    /\ redisUp = TRUE
    /\ NoLogins

\* PUT requests, one at a time, while bob and alice join and leave.
NextUpdate ==
    \/ UpdateStep({"r1"}, Users, {1}, UpdateBodies)
    \/ AccessStep({"r1"})
    \/ MemberStep({"r2"}, {1}, {"alice", "bob"}, {NoPw})

SpecUpdate == InitUpdate /\ [][NextUpdate]_vars

\* ------------------------------------------------ reads of a created room
\* carol reads the room's details while bob joins and leaves; cached values
\* may expire at any time.
NextReads ==
    \/ GetStep(Reqs, {"carol"}, {1})
    \/ MemberStep(Reqs, {1}, {"bob"}, {NoPw})
    \/ \E c \in Codes : Expire(c)

SpecReads == InitMembers /\ [][NextReads]_vars

\* ------------------------------------------------ tokens of a stored room
\* stored rooms with recording enabled or not, permission flags at their defaults
TokenDocs ==
    {[d EXCEPT !.settings["recordingEnabled"] = rec] :
        d \in {e \in StoredDocs :
                 /\ e.type = "public"
                 /\ \A i \in 1..Len(e.participants) :
                       e.participants[i].permissions = DefaultPermissions},
        rec \in BOOLEAN}

InitTokens ==
    /\ store \in {<<d>> : d \in TokenDocs}
    /\ req = [r \in Reqs |-> IdleReq]
    /\ now = 1
    /\ cache = [c \in Codes |-> NoEntry]
    /\ redisUp = TRUE
    /\ NoLogins

\* Token, Join and Leave requests, one at a time, on a room found in the store.
NextTokens ==
    \/ TokenStep({"r1"}, Users, {1})
    \/ MemberStep({"r1"}, {1}, Users, {NoPw})

SpecTokens == InitTokens /\ [][NextTokens]_vars

\* ------------------------------------------------ a failing Redis server
\* Every route, one request at a time, on a created room, while the connection
\* to Redis comes and goes.  A second room can be created once (its code is
\* never free again), so the store holds two documents at most.
NextFaults ==
    \/ CreateStep({"r1"}, {"bob"},
                  Bodies({RoomName(2, MaxLiveKitName, TRUE)}, {"public"}, {NoPw},
                         {MaxCap}, {EmptySettings}),
                  {2})
    \/ MemberStep({"r1"}, {1}, {"bob"}, {NoPw})
    \/ UpdateStep({"r1"}, {"alice"}, {1},
                  {UpdateBody(NoName, [chatEnabled |-> FALSE], 0)})
    \/ DeleteStep({"r1"}, {"alice", "bob"}, {1})
    \/ AccessStep({"r1"})
    \/ GetStep({"r1"}, {"carol"}, {1})
    \/ RedisDown
    \/ RedisBack

SpecFaults == InitMembers /\ [][NextFaults]_vars

\* ------------------------------------------- capacity of a created room
\* the PUT bodies that assign maxParticipants only
CapBodies == {UpdateBody(NoName, NoSettings, m) : m \in Caps}

\* Join, Leave and PUT requests on a created room, one request at a time.
NextCap ==
    \/ MemberStep({"r1"}, {1}, {"alice", "bob"}, {NoPw})
    \/ UpdateStep({"r1"}, {"alice", "bob"}, {1}, CapBodies)
    \/ AccessStep({"r1"})

SpecCap == InitMembers /\ [][NextCap]_vars

\* ------------------------------------------ tokens of a created room
\* Concurrent Join, Leave and token requests of bob's on a created room.
NextLeave ==
    \/ MemberStep(Reqs, {1}, {"bob"}, {NoPw})
    \/ TokenStep(Reqs, {"alice", "bob"}, {1})

SpecLeave == InitMembers /\ [][NextLeave]_vars

\* --------------------------------------------- recording of a stored room
\* Concurrent start and stop requests of alice's and bob's on a stored room.
NextRecording == RecordingStep(Reqs, {"alice", "bob"}, {1})

SpecRecording == InitTokens /\ [][NextRecording]_vars

\* ------------------------------------------------------ logins of a user
\* Concurrent login attempts on one account, with the right password or a
\* wrong one, while the hours pass.
NextLogin ==
    \/ LoginStep(Reqs)
    \/ Elapse(1, MaxLoginClock)

SpecLogin == Init /\ [][NextLogin]_vars

\* ---------------------------------------------------- names of the rooms
\* Concurrent CreateRoom requests with one name, and PUT requests that rename a
\* room to the other name.
NextNames ==
    \/ CreateStep(Reqs, {"alice"},
                  Bodies(Names, {"public"}, {NoPw}, {MaxCap}, {EmptySettings}),
                  Codes)
    \/ UpdateStep({"r1"}, {"alice"}, Codes,
                  {UpdateBody(n, NoSettings, 0) : n \in Names})
    \/ AccessStep({"r1"})

SpecNames == Init /\ [][NextNames]_vars

\* ----------------------------------------------------- a user logged in
\* the token of the login at hour 1
SessionToken == generateAuthToken(1)

\* the state once that login has completed
InitLoggedIn ==
    /\ store = <<>>
    /\ req = [r \in Reqs |-> IdleReq]
    /\ now = 1
    /\ cache = [c \in Codes |-> NoEntry]
    /\ redisUp = TRUE
    /\ account = NewAccount
    /\ authKeys = [blacklist |-> Null, session |-> 1 + SessionHours]
    /\ client = [stored |-> Null, state |-> initialState(Null)]

\* Requests with the token, one at a time, logouts among them, while hours and
\* days pass and the connection to Redis comes and goes.
NextLogout ==
    \/ AuthStep({"r1"}, SessionToken)
    \/ \E h \in {1, BlacklistHours, JwtHours} : Elapse(h, MaxLogoutClock)
    \/ RedisDown
    \/ RedisBack

SpecLogout == InitLoggedIn /\ [][NextLogout]_vars

\* ------------------------------------------------------------ the client
\* the page is loaded with or without a token in localStorage
InitClient ==
    /\ store = <<>>
    /\ req = [r \in Reqs |-> IdleReq]
    /\ now = 1
    /\ cache = [c \in Codes |-> NoEntry]
    /\ redisUp = TRUE
    /\ account = NewAccount
    /\ authKeys = NoKeys
    /\ \E stored \in ClientTokens \cup {Null} :
          client = [stored |-> stored, state |-> initialState(stored)]

\* Any action is dispatched in any state.
NextClient == \E action \in AuthActions : Dispatch(action)

SpecClient == InitClient /\ [][NextClient]_vars

\* ================================================================ claims
Rooms == {store[i] : i \in Stored}
GateErrors == {"ROOM_INACTIVE", "ROOM_FULL", "PASSWORD_REQUIRED", "INVALID_PASSWORD"}
Full(room) == currentParticipantsCount(room) >= room.maxParticipants

\* C1: in every reachable state of a room, whatever the interleaving of Join and
\* Leave requests, the number of active participant records is at most
\* maxParticipants.
C1_CapacityInvariant ==
    \A room \in Rooms : currentParticipantsCount(room) <= room.maxParticipants

\* C2: the capacity check and the roster append of Join are one atomic unit: when
\* the Joins of two distinct users on the same room have both succeeded by
\* appending a record and nothing was written since, the room is within capacity
\* (of two concurrent Joins on one free slot only one succeeds).
C2_OneJoinPerFreeSlot ==
    \A r1, r2 \in Reqs :
        ( /\ r1 # r2
          /\ req[r1].op = "join" /\ req[r2].op = "join"
          /\ req[r1].pc = "done" /\ req[r2].pc = "done"
          /\ req[r1].result = "OK" /\ req[r2].result = "OK"
          /\ req[r1].delta.kind = "push" /\ req[r2].delta.kind = "push"
          /\ req[r1].user # req[r2].user
          /\ req[r1].room.id = req[r2].room.id )
        => currentParticipantsCount(store[req[r1].room.id])
              <= store[req[r1].room.id].maxParticipants

\* C3: Join reports the first failing check in the order RoomInactive, RoomFull,
\* PasswordRequired, InvalidPassword: an inactive room yields ROOM_INACTIVE even
\* when full, an active full room yields ROOM_FULL whatever the password, and the
\* password errors are reported only for an active room with a free slot.
C3_GateOrder ==
    [][\A r \in Reqs, u \in Users, c \in Codes, pw \in JoinPws :
          (JoinFind(r, u, c, pw) /\ findOne(c) # NoRoom) =>
             LET room == findOne(c)
                 pp   == room.type = "password-protected"
             IN /\ ~room.isActive => req'[r].result = "ROOM_INACTIVE"
                /\ (room.isActive /\ Full(room)) => req'[r].result = "ROOM_FULL"
                /\ (room.isActive /\ ~Full(room) /\ pp /\ pw = NoPw)
                      => req'[r].result = "PASSWORD_REQUIRED"
                /\ (room.isActive /\ ~Full(room) /\ pp /\ pw # NoPw
                       /\ pw # room.password)
                      => req'[r].result = "INVALID_PASSWORD"
                /\ (room.isActive /\ ~Full(room) /\ (pp => pw = room.password /\ pw # NoPw))
                      => req'[r].result \notin GateErrors]_vars

\* C3 witness: a Join on an inactive full room answered ROOM_INACTIVE
C3_Witness ==
    \E room \in Rooms :
        /\ ~room.isActive /\ Full(room) /\ room.type = "password-protected"
        /\ req["r1"].op = "join" /\ req["r1"].pc = "done"
        /\ req["r1"].room.id = room.id /\ req["r1"].result = "ROOM_INACTIVE"

\* C4: a Join that fails leaves the room unchanged: when the room is inactive or
\* full, or password-protected and the password is missing or wrong, the handler
\* answers with an error without sending any update, and no step that ends a
\* Join with an error changes a stored record.
C4_FailedJoinFrame ==
    [][ /\ \A r \in Reqs, u \in Users, c \in Codes, pw \in JoinPws :
              ( /\ JoinFind(r, u, c, pw)
                /\ findOne(c) # NoRoom
                /\ \/ ~findOne(c).isActive
                   \/ Full(findOne(c))
                   \/ /\ findOne(c).type = "password-protected"
                      /\ (pw = NoPw \/ pw # findOne(c).password) )
              => /\ req'[r].pc = "done"
                 /\ req'[r].result \in GateErrors
                 /\ req'[r].delta.kind = "none"
                 /\ store' = store
        /\ \A r \in Reqs :
              ( /\ req'[r] # req[r]
                /\ req'[r].op = "join" /\ req'[r].pc = "done"
                /\ req'[r].result # "OK" )
              => store' = store ]_vars

\* C4 witness: a Join with a wrong password on a password-protected room with a
\* free slot was answered INVALID_PASSWORD
C4_Witness ==
    \E room \in Rooms :
        /\ room.isActive /\ ~Full(room) /\ room.type = "password-protected"
        /\ req["r1"].op = "join" /\ req["r1"].pc = "done"
        /\ req["r1"].room.id = room.id /\ req["r1"].result = "INVALID_PASSWORD"
        /\ ~isParticipant(room, req["r1"].user)

\* C5: Leave is idempotent: the update of a Leave by a user who has no active
\* record (never joined, or already left) changes no stored record, and the
\* Leave is answered without error.
C5_LeaveIdempotent ==
    [][\A r \in Reqs :
          (LeaveSave(r) /\ ~isParticipant(store[req[r].room.id], req[r].user))
          => (store' = store /\ req'[r].pc = "cache")]_vars

\* C6: the user and the role of a participant record never change once the
\* record is written; a record that becomes active again has leftAt = null; a
\* Join of a user who has a record reactivates that record (active, leftAt null,
\* role as before) and appends none.
C6_RoleSticky ==
    [][ /\ \A id \in 1..Len(store) : \A i \in 1..Len(store[id].participants) :
              LET old == store[id].participants[i]
                  new == store'[id].participants[i]
              IN /\ new.user = old.user
                 /\ new.role = old.role
                 /\ (~old.isActive /\ new.isActive) => new.leftAt = Null
        /\ \A r \in Reqs :
              (JoinSave(r) /\ req[r].delta.kind = "set" /\ req'[r].pc = "cache")
              => LET id == req[r].room.id
                     i  == req[r].delta.idx
                 IN /\ Len(store'[id].participants) = Len(store[id].participants)
                    /\ store'[id].participants[i].user = req[r].user
                    /\ store'[id].participants[i].isActive
                    /\ store'[id].participants[i].leftAt = Null
                    /\ store'[id].participants[i].role = store[id].participants[i].role
      ]_vars

\* C6 witness: the owner has rejoined after a Leave: the Join reactivated the
\* owner's record, which is active with role owner and leftAt = null
C6_Witness ==
    \E r \in Reqs, room \in Rooms :
        /\ req[r].op = "join" /\ req[r].pc = "done" /\ req[r].result = "OK"
        /\ req[r].delta.kind = "set" /\ req[r].room.id = room.id
        /\ req[r].user = room.owner
        /\ FindByUser(room, room.owner) # 0
        /\ LET p == room.participants[FindByUser(room, room.owner)]
           IN p.role = "owner" /\ p.isActive /\ p.leftAt = Null

\* C7 (as amended): HasPermission(room, user, p) is true for every permission
\* name p whenever the user's effective role is owner, whatever the stored flags.
C7_OwnerAllowedWhileActive ==
    \A room \in Rooms : \A u \in Users : \A p \in AskedPerms :
        EffectiveRole(room, u) = "owner" => hasPermission(room, u, p)

\* C7 witness: the owner, back in the room after a Leave, is allowed a
\* permission whose stored flag is false
C7_Witness ==
    \E r \in Reqs, room \in Rooms :
        /\ req[r].op = "join" /\ req[r].pc = "done" /\ req[r].result = "OK"
        /\ req[r].delta.kind = "set" /\ req[r].user = room.owner
        /\ EffectiveRole(room, room.owner) = "owner"
        /\ ~room.participants[FindActive(room, room.owner)].permissions["canKick"]
        /\ hasPermission(room, room.owner, "canKick")

\* C7 (original): HasPermission(room, ownerId, p) is true for every p in every
\* state reached from CreateRoom by Join and Leave operations.
C7_OwnerAlwaysAllowed ==
    \A room \in Rooms : \A p \in AskedPerms : hasPermission(room, room.owner, p)

\* C8: for a user with no active owner record, HasPermission is true exactly when
\* the name is a stored flag and the user's active record stores true for it; it
\* is false without an active record and for a name that is no stored flag.
C8_StoredFlag ==
    \A room \in Rooms : \A u \in Users : \A p \in AskedPerms :
        (~\E i \in 1..Len(room.participants) :
              /\ room.participants[i].user = u
              /\ room.participants[i].isActive
              /\ room.participants[i].role = "owner")
        => ( hasPermission(room, u, p)
             <=> /\ p \in PermNames
                 /\ \E i \in 1..Len(room.participants) :
                       /\ room.participants[i].user = u
                       /\ room.participants[i].isActive
                       /\ room.participants[i].permissions[p] )

\* C8 witness: bob has left; his record is inactive, its canKick flag is true,
\* and he is refused canKick
C8_Witness ==
    \E room \in Rooms :
        /\ req["r1"].op = "leave" /\ req["r1"].pc = "done" /\ req["r1"].result = "OK"
        /\ req["r1"].delta.kind = "set" /\ req["r1"].user = "bob"
        /\ FindByUser(room, "bob") # 0
        /\ ~room.participants[FindByUser(room, "bob")].isActive
        /\ room.participants[FindByUser(room, "bob")].permissions["canKick"]
        /\ ~hasPermission(room, "bob", "canKick")

\* C9: room codes are unique and immutable and code generation never yields a
\* code already in the store: every code CreateRoom draws is absent from the
\* store, no two stored rooms share a code, no stored room's code changes.
C9_CodesUniqueFresh ==
    [][ /\ \A r \in Reqs, c \in Codes :
              CreateRoomInsert(r, c) => UniqueIndexAllows(c)
        /\ \A i, j \in 1..Len(store') :
              store'[i].roomId = store'[j].roomId => i = j
        /\ \A i \in 1..Len(store) : store'[i].roomId = store[i].roomId ]_vars

\* C10: when CreateRoom completes, the new room's roster is exactly one record:
\* the creator's, with role owner and isActive = true.
C10_SoleOwnerAfterCreate ==
    [][\A r \in Reqs :
          CreateRoomSave(r) =>
             store'[req[r].room.id].participants
                = <<NewParticipant(req[r].user, "owner")>>]_vars

\* C11: CreateRoom fails with a validation error and creates no room when the
\* access type is password-protected and no password is supplied, when
\* maxParticipants is outside [1, 1000], or when the name length is outside
\* [3, 100].
C11_InvalidConfiguration ==
    [][\A r \in Reqs, u \in Users, b \in CreateBodies :
          ( /\ CreateRoomFind(r, u, b.name, b.type, b.password, b.maxParticipants,
                              b.settings)
            /\ \/ b.type = "password-protected" /\ b.password = NoPw
               \/ b.maxParticipants < MinParticipants
               \/ b.maxParticipants > MaxParticipants
               \/ b.name.len < MinNameLength
               \/ b.name.len > MaxNameLength )
          => /\ req'[r].pc = "done"
             /\ req'[r].result = "VALIDATION_ERROR"
             /\ store' = store ]_vars

\* C12: in every reachable state a room stores a password if and only if its
\* access type is password-protected.
C12_PasswordIffProtected ==
    \A room \in Rooms : room.password # NoPw <=> room.type = "password-protected"

\* the rooms whose CreateRoom request has completed its addParticipant(owner)
Created == {id \in Stored : ~\E r \in Reqs : /\ req[r].op = "create"
                                             /\ req[r].pc = "save"
                                             /\ req[r].room.id = id}
\* the positions of the records of a roster that have role owner
OwnerRecords(room) ==
    {i \in 1..Len(room.participants) : room.participants[i].role = "owner"}

\* C13: once CreateRoom has completed, exactly one participant record of the
\* room has role owner and it is the creator's; the update of a Leave removes
\* no record and changes no record's user or role, only isActive and leftAt of
\* the record that leaves; the update of a Join adds no record with role owner.
C13_SingleOwner ==
    [][ /\ \A id \in Stored : id \in Created =>
              /\ Cardinality(OwnerRecords(store[id])) = 1
              /\ \A i \in OwnerRecords(store[id]) :
                    store[id].participants[i].user = store[id].owner
        /\ \A r \in Reqs : LeaveSave(r) =>
              LET old == store[req[r].room.id].participants
                  new == store'[req[r].room.id].participants
              IN /\ Len(new) = Len(old)
                 /\ \A i \in 1..Len(old) :
                       /\ new[i].user = old[i].user /\ new[i].role = old[i].role
                       /\ new[i].permissions = old[i].permissions
                       /\ new[i] # old[i] => /\ ~new[i].isActive
                                             /\ new[i].leftAt = now
                                             /\ new[i].user = req[r].user
        /\ \A r \in Reqs : JoinSave(r) =>
              OwnerRecords(store'[req[r].room.id]) = OwnerRecords(store[req[r].room.id])
      ]_vars

\* C13 witness: the owner has left: the owner's record is still in the roster,
\* inactive, with leftAt set and role owner
C13_Witness ==
    \E r \in Reqs, room \in Rooms :
        /\ req[r].op = "leave" /\ req[r].pc = "done" /\ req[r].result = "OK"
        /\ req[r].delta.kind = "set" /\ req[r].room.id = room.id
        /\ req[r].user = room.owner
        /\ room.id \in Created
        /\ \E i \in OwnerRecords(room) :
              /\ room.participants[i].user = room.owner
              /\ ~room.participants[i].isActive
              /\ room.participants[i].leftAt # Null

\* C14: a room's roster never holds two participant records for the same user,
\* whatever the interleaving of Join and Leave requests.
C14_NoDuplicateRecords ==
    \A room \in Rooms : \A i, j \in 1..Len(room.participants) :
        room.participants[i].user = room.participants[j].user => i = j

\* C16: for a room created with maxParticipants = 1 and requests served one at a
\* time: creation leaves the active count at 1; a Join of another user while the
\* owner is active fails with ROOM_FULL; the owner's Leave leaves the count at
\* 0; a Join of another user then goes through and leaves the count at 1 with
\* that user active in role participant.
C16_SingleSeatScenario ==
    [][\A r \in Reqs :
          LET id   == IF req'[r].room.id # 0 THEN req'[r].room.id ELSE 1
              one  == Len(store) >= id /\ store[id].maxParticipants = 1
              room == store[id]
          IN one =>
             /\ CreateRoomSave(r) => currentParticipantsCount(store'[id]) = 1
             /\ \A u \in Users \ {room.owner} :
                   ( /\ JoinFind(r, u, room.roomId, NoPw)
                     /\ isParticipant(room, room.owner) )
                   => req'[r].pc = "done" /\ req'[r].result = "ROOM_FULL"
             /\ (LeaveSave(r) /\ req[r].user = room.owner /\ Len(room.participants) = 1)
                   => currentParticipantsCount(store'[id]) = 0
             /\ \A u \in Users \ {room.owner} :
                   ( /\ JoinFind(r, u, room.roomId, NoPw)
                     /\ currentParticipantsCount(room) = 0 )
                   => req'[r].pc = "save"
             /\ (JoinSave(r) /\ req[r].user # room.owner
                            /\ currentParticipantsCount(room) = 0)
                   => /\ currentParticipantsCount(store'[id]) = 1
                      /\ EffectiveRole(store'[id], req[r].user) = "participant"
      ]_vars

\* C16 witness: in a room of one seat the owner has left and the second user's
\* Join has been answered with success: that user is the one active participant
C16_Witness ==
    \E room \in Rooms :
        /\ room.maxParticipants = 1
        /\ req["r1"].op = "join" /\ req["r1"].pc = "done" /\ req["r1"].result = "OK"
        /\ req["r1"].delta.kind = "push" /\ req["r1"].user = "bob"
        /\ req["r1"].room.id = room.id
        /\ ~isParticipant(room, room.owner)
        /\ room.participants[FindByUser(room, room.owner)].leftAt # Null
        /\ currentParticipantsCount(room) = 1
        /\ EffectiveRole(room, "bob") = "participant"

Current(data, room) ==
    \/ data.kind = "details" /\ data = RoomData(room)
    \/ data.kind = "created" /\ data = CreateSnapshot(room)

\* C17: a read of a room's details that starts when no Join, Leave, update or
\* delete is in flight, and is answered from the cache, returns the store's
\* current state of the room, never a stale snapshot.
C17_ReadsCurrent ==
    [][\A r \in Reqs, u \in Users, c \in Codes :
          ( /\ GetCache(r, u, c)
            /\ req'[r].pc = "done"
            /\ \A q \in Reqs : Free(q) \/ req[q].op = "get" )
          => /\ findOne(c) # NoRoom
             /\ Current(req'[r].body, findOne(c)) ]_vars

\* the three grant shapes
ParticipantShape(g) ==
    g.roomJoin /\ g.canPublish /\ g.canSubscribe /\ ~g.roomAdmin /\ ~g.roomCreate
RecorderShape(g) ==
    g.canSubscribe /\ ~g.canPublish /\ g.roomAdmin /\ ~g.roomCreate
AdminShape(g) ==
    g.roomJoin /\ g.canPublish /\ g.canSubscribe /\ g.roomAdmin /\ g.roomCreate
\* the requests answered with a token
Issued == {r \in Reqs : req[r].pc = "done" /\ req[r].body.kind = "token"}

\* C18 (as amended): every issued token has one of the three grant shapes: the
\* recording route issues the recorder shape, the admin route the admin shape,
\* and the join and room-token routes issue the participant shape, without
\* room-admin and room-create, to every caller but the room's owner, who is
\* issued the admin shape.
C18_GrantShapes ==
    \A r \in Issued :
        LET g == req[r].body IN
        /\ req[r].op \in {"join", "roomToken", "recordingToken", "adminToken"}
        /\ req[r].op = "recordingToken" => RecorderShape(g)
        /\ req[r].op = "adminToken" => AdminShape(g)
        /\ req[r].op \in {"join", "roomToken"} =>
              IF req[r].user = store[req[r].room.id].owner
              THEN AdminShape(g) ELSE ParticipantShape(g)

\* C18 witness: the room-token route has issued a token to the owner, and it
\* carries room-admin and room-create
C18_Witness ==
    /\ "r1" \in Issued
    /\ req["r1"].op = "roomToken"
    /\ req["r1"].user = store[req["r1"].room.id].owner
    /\ req["r1"].body.roomAdmin /\ req["r1"].body.roomCreate

\* C18 (original): a recorder token has the recorder shape, an admin token the
\* admin shape, and no token issued through the room-token or join path
\* carries room-admin or room-create.
C18_NoAdminOnJoinPath ==
    \A r \in Issued :
        LET g == req[r].body IN
        /\ req[r].op = "recordingToken" => RecorderShape(g)
        /\ req[r].op = "adminToken" => AdminShape(g)
        /\ req[r].op \in {"join", "roomToken"} => ParticipantShape(g)

\* the step of request r is the answer of the cache helper its handler awaits
\* after its store round trips
CacheStep(r) ==
    \/ CreateRoomCache(r) \/ JoinCache(r) \/ LeaveCache(r)
    \/ UpdateCache(r) \/ DeleteCache(r) \/ GetSetCache(r)

\* C20: a failing cache command never makes the request fail and never touches
\* the store: when setCache or deleteCache fails, the CreateRoom, Join, Leave,
\* update, delete or read request is answered with success and the store and the
\* cache are as before; when getCache fails the read goes on to the store.
C20_CacheBestEffort ==
    [][\A r \in Reqs :
          /\ (CacheStep(r) /\ ~redisUp)
                => /\ req'[r].pc = "done" /\ req'[r].result = "OK"
                   /\ store' = store /\ cache' = cache
          /\ \A u \in Users, c \in Codes :
                (GetCache(r, u, c) /\ ~redisUp)
                => req'[r].pc = "find" /\ store' = store ]_vars

\* C20 witness: bob's Join was answered with success while Redis was down: his
\* record is stored and the snapshot cached at creation was not deleted
C20_Witness ==
    /\ ~redisUp
    /\ req["r1"].op = "join" /\ req["r1"].pc = "done" /\ req["r1"].result = "OK"
    /\ req["r1"].delta.kind = "push" /\ req["r1"].user = "bob"
    /\ ~store[1].deleted /\ isParticipant(store[1], "bob")
    /\ cache[1].kind = "created"

\* C21: a generated code that collides with a stored one is never surfaced to
\* the caller as an error other than IdSpaceExhausted: when the insert of a
\* CreateRoom meets a stored code, the request either draws again (it is still
\* before its insert) or fails with IdSpaceExhausted.
C21_CollisionRetried ==
    [][\A r \in Reqs, c \in Codes :
          (CreateRoomInsert(r, c) /\ ~UniqueIndexAllows(c))
             => \/ req'[r].pc = "insert"
                \/ req'[r].pc = "done" /\ req'[r].result = "ID_SPACE_EXHAUSTED" ]_vars

\* C22: room creation is atomic: every room visible in the store already has
\* its owner's record in the roster, and its active count is within
\* maxParticipants.
C22_CreateAtomic ==
    \A i \in Stored :
        /\ \E k \in 1..Len(store[i].participants) :
              /\ store[i].participants[k].user = store[i].owner
              /\ store[i].participants[k].role = "owner"
        /\ currentParticipantsCount(store[i]) <= store[i].maxParticipants

C24_TokenNeedsMembership ==
    [][\A r \in Reqs :
          /\ \A u \in Users, c \in Codes :
                RoomToken(r, u, c) =>
                   LET room == findOne(c) IN
                   /\ req'[r].body.kind = "token"
                         <=> (room # NoRoom /\ room.isActive /\ isParticipant(room, u))
                   /\ req'[r].body.kind # "token"
                         => req'[r].result \in {"NOT_FOUND", "ROOM_INACTIVE",
                                                "NOT_PARTICIPANT"}
          /\ (LeaveSave(r) /\ SaveAccepted(req[r].room, req[r].delta))
                => ~isParticipant(store'[req[r].room.id], req[r].user) ]_vars

\* C25: successful recording starts and stops of a room strictly alternate,
\* beginning with a start: a start succeeds only while the stored room is not
\* recording and a stop only while it is (so two concurrent starts never both
\* succeed); a start on a recording room is answered ALREADY_RECORDING and a
\* stop on a room that is not recording NOT_RECORDING.
C25_StartStopAlternate ==
    [][\A r \in Reqs :
          /\ (StartRecordingSave(r) /\ req'[r].result = "OK")
                => ~store[req[r].room.id].isRecording
          /\ (StopRecordingSave(r) /\ req'[r].result = "OK")
                => store[req[r].room.id].isRecording
          /\ \A u \in Users, c \in Codes :
                /\ ( /\ StartRecordingFind(r, u, c)
                     /\ RecordingParticipant(findOne(c), u)
                     /\ findOne(c).settings["recordingEnabled"]
                     /\ findOne(c).isRecording )
                      => req'[r].result = "ALREADY_RECORDING"
                /\ ( /\ StopRecordingFind(r, u, c)
                     /\ RecordingParticipant(findOne(c), u)
                     /\ ~findOne(c).isRecording )
                      => req'[r].result = "NOT_RECORDING" ]_vars

\* C26: after 5 consecutive failed login attempts the account is locked: the
\* failed attempt that brings the counter to 5 or more leaves a lock set; while
\* the lock has not expired every attempt is rejected, also one with the
\* correct password; a successful login resets the counter.
C26_LockAfterFailures ==
    [][\A r \in Reqs :
          /\ ( /\ LoginUpdate(r) /\ ~req[r].delta.correct
               /\ account'.loginAttempts >= MaxLoginAttempts )
                => account'.lockUntil # Null
          /\ \A correct \in BOOLEAN :
                (LoginFind(r, correct) /\ isLocked(account, now))
                   => req'[r].pc = "done" /\ req'[r].result = "ACCOUNT_LOCKED"
          /\ (LoginUpdate(r) /\ req[r].delta.correct)
                => account'.loginAttempts = 0 ]_vars

\* C29: in every reachable state, also with concurrent failed attempts, a
\* failed-attempt counter of 5 or more implies that the lock has been set.
C29_CounterImpliesLock ==
    account.loginAttempts >= MaxLoginAttempts => account.lockUntil # Null

\* C27: room names are unique in the store: no two stored rooms have the same
\* name, whatever the interleaving of create and update requests (so of two
\* concurrent CreateRoom calls with one name at most one succeeds).
C27_NamesUnique ==
    \A i, j \in Stored : store[i].name = store[j].name => i = j

\* C28: once a logout with the token has completed, authentication rejects the
\* token as revoked on every later request, for as long as the token has not
\* expired.
C28_RevokedStaysRejected ==
    [][\A q, r \in Reqs, op \in {"me", "logout"} :
          ( /\ req[q].op = "logout" /\ req[q].pc = "done" /\ req[q].result = "OK"
            /\ Authenticate(r, op, SessionToken)
            /\ ~Expired(SessionToken) )
             => req'[r].pc = "done" /\ req'[r].result = "TOKEN_REVOKED" ]_vars

\* C30: the state after a LOGOUT or a CLEAR_AUTH action, from any prior state,
\* is fully signed out: user = null, token = null, isAuthenticated = false and
\* loading = false.
C30_SignedOut ==
    [][\A action \in [type : {"LOGOUT", "CLEAR_AUTH"}] :
          Dispatch(action) =>
             client'.state = [user |-> NoUser, token |-> Null,
                              isAuthenticated |-> FALSE, loading |-> FALSE] ]_vars

====
